---------------------------- MODULE Spec2Model ----------------------------
(***************************************************************************)
(* morningChats: the call-session orchestration of routes/gather.js and    *)
(* routes/voice.js.  Handlers are async functions; each action below is    *)
(* the code a handler runs between two awaits.  Utterances are strings,    *)
(* and the pattern predicates are computed character by character.         *)
(***************************************************************************)
EXTENDS Integers, Sequences, FiniteSets, TLC

(***************************************************************************)
(* Strings and the regular-expression fragments the source uses.           *)
(***************************************************************************)
Ch(s, i) == SubSeq(s, i, i)

DigitChars == {"0", "1", "2", "3", "4", "5", "6", "7", "8", "9"}

UpperChars == "ABCDEFGHIJKLMNOPQRSTUVWXYZ"

LowerChars == "abcdefghijklmnopqrstuvwxyz"

SpaceChars == {" ", "\t", "\n"}

IsDigit(c) == c \in DigitChars

IsSpace(c) == c \in SpaceChars

IsLetter(c) == \E k \in 1..26 : c = Ch(UpperChars, k) \/ c = Ch(LowerChars, k)

\* \w of a JavaScript regular expression
IsWordChar(c) == IsLetter(c) \/ IsDigit(c) \/ c = "_"

LowerChar(c) ==
  IF \E k \in 1..26 : c = Ch(UpperChars, k)
  THEN Ch(LowerChars, CHOOSE k \in 1..26 : c = Ch(UpperChars, k))
  ELSE c

RECURSIVE ToLowerCase(_)
ToLowerCase(s) ==
  IF s = "" THEN ""
  ELSE LowerChar(Ch(s, 1)) \o ToLowerCase(SubSeq(s, 2, Len(s)))

RECURSIVE TrimStart(_)
TrimStart(s) ==
  IF s # "" /\ IsSpace(Ch(s, 1)) THEN TrimStart(SubSeq(s, 2, Len(s))) ELSE s

RECURSIVE TrimEnd(_)
TrimEnd(s) ==
  IF s # "" /\ IsSpace(Ch(s, Len(s))) THEN TrimEnd(SubSeq(s, 1, Len(s) - 1)) ELSE s

Trim(s) == TrimEnd(TrimStart(s))

\* the literal lit occurs in s at position i
StartsAt(s, i, lit) ==
  /\ i >= 1
  /\ i + Len(lit) - 1 <= Len(s)
  /\ SubSeq(s, i, i + Len(lit) - 1) = lit

Includes(s, lit) == \E i \in 1..(Len(s) + 1) : StartsAt(s, i, lit)

\* "." of a regular expression matches every character but a line break
NoLineBreak(s, a, b) == \A k \in a..b : Ch(s, k) # "\n"

\* lits[1].*lits[2].* ... matched in s from position i on
RECURSIVE ChainFrom(_, _, _)
ChainFrom(s, i, lits) ==
  IF lits = <<>> THEN TRUE
  ELSE \E j \in i..(Len(s) + 1) :
         /\ StartsAt(s, j, Head(lits))
         /\ NoLineBreak(s, i, j - 1)
         /\ ChainFrom(s, j + Len(Head(lits)), Tail(lits))

\* /a.*b.*c/ unanchored
Chain(s, lits) ==
  \E i \in 1..(Len(s) + 1) :
    StartsAt(s, i, Head(lits)) /\ ChainFrom(s, i + Len(Head(lits)), Tail(lits))

\* /^a.*b/ anchored at the start
ChainAtStart(s, lits) ==
  StartsAt(s, 1, Head(lits)) /\ ChainFrom(s, 1 + Len(Head(lits)), Tail(lits))

InClass(c, cls) ==
  CASE cls = "d" -> IsDigit(c)
    [] cls = "s" -> IsSpace(c)
    [] cls = "sep" -> c \in {"-", "."}
    [] cls = "dot" -> c = "."
    [] cls = "sdot" -> IsSpace(c) \/ c = "."
    [] OTHER -> FALSE

\* the upper limit of * and +
Unbounded == 0 - 1

MinOf(a, b) == IF a < b THEN a ELSE b

\* /^ items $/ where each item is a character class with a repetition range
RECURSIVE MatchItems(_, _, _)
MatchItems(s, i, items) ==
  IF items = <<>> THEN i = Len(s) + 1
  ELSE LET p == Head(items)
           left == Len(s) - i + 1
           hi == IF p.max = Unbounded THEN left ELSE MinOf(p.max, left)
       IN  \E n \in p.min..hi :
             /\ \A k \in i..(i + n - 1) : InClass(Ch(s, k), p.cls)
             /\ MatchItems(s, i + n, Tail(items))

Item(cls, min, max) == [cls |-> cls, min |-> min, max |-> max]

FullMatch(s, items) == MatchItems(s, 1, items)

\* \b at the gap before position i of s
WordBoundary(s, i) ==
  LET before == i - 1 >= 1 /\ i - 1 <= Len(s) /\ IsWordChar(Ch(s, i - 1))
      after == i >= 1 /\ i <= Len(s) /\ IsWordChar(Ch(s, i))
  IN  before # after

\* /\blit\b/ at position i
WordAt(s, i, lit) ==
  StartsAt(s, i, lit) /\ WordBoundary(s, i) /\ WordBoundary(s, i + Len(lit))

HasWord(s, lit) == \E i \in 1..Len(s) : WordAt(s, i, lit)

(***************************************************************************)
(* The utterance classifiers of gather.js.                                 *)
(***************************************************************************)
\* /^\d{3}[-.]?\d{3}[-.]?\d{4}\.?$/
PhoneNumberPattern ==
  <<Item("d", 3, 3), Item("sep", 0, 1), Item("d", 3, 3), Item("sep", 0, 1),
    Item("d", 4, 4), Item("dot", 0, 1)>>

\* /^\d{3}\s*\d{3}\.?$/
SixDigitPattern ==
  <<Item("d", 3, 3), Item("s", 0, Unbounded), Item("d", 3, 3), Item("dot", 0, 1)>>

\* /^\d{2,4}\s*\d{2,4}\.?$/
TwoGroupPattern ==
  <<Item("d", 2, 4), Item("s", 0, Unbounded), Item("d", 2, 4), Item("dot", 0, 1)>>

\* /^\d{3,10}\.?$/
ShortNumericPattern == <<Item("d", 3, 10), Item("dot", 0, 1)>>

\* /^\d+[\s.]*\d*\.?$/
JustNumbersPattern ==
  <<Item("d", 1, Unbounded), Item("sdot", 0, Unbounded), Item("d", 0, Unbounded),
    Item("dot", 0, 1)>>

\* voicemailPatterns.some(pattern => pattern.test(text))
voicemailPatterns(text) ==
  \/ Chain(text, <<"not available", "leave", "message">>)
  \/ Chain(text, <<"can't come to", "phone">>)
  \/ Chain(text, <<"leave", "message", "after", "tone">>)
  \/ Chain(text, <<"press", "for", "delivery", "options">>)
  \/ Chain(text, <<"nothing", "recorded", "hang", "up">>)
  \/ Chain(text, <<"message", "after", "tone", "hang", "up">>)
  \/ Chain(text, <<"simply", "hang", "up">>)
  \/ Chain(text, <<"your", "message", "after", "beep">>)
  \/ Chain(text, <<"please", "leave", "your", "name">>)
  \/ Chain(text, <<"mailbox", "full">>)
  \/ Chain(text, <<"unavailable", "right", "now">>)
  \/ FullMatch(text, PhoneNumberPattern)
  \/ StartsAt(text, 1, "you've reached")
  \/ StartsAt(text, 1, "youve reached")
  \/ ChainAtStart(text, <<"this is", "voicemail">>)
  \/ ChainAtStart(text, <<"this is", "message">>)
  \/ ChainAtStart(text, <<"hello", "not here">>)
  \/ ChainAtStart(text, <<"sorry", "missed", "call">>)
  \/ FullMatch(text, SixDigitPattern)
  \/ FullMatch(text, TwoGroupPattern)
  \/ StartsAt(text, 1, "at the tone")
  \/ StartsAt(text, 1, "please record")
  \/ Chain(text, <<"when you have finished recording", "hang up">>)
  \/ Includes(text, "you may hang up")
  \/ Chain(text, <<"recording", "hang up">>)

isVoicemailMessage(userInput) ==
  LET trimmedInput == Trim(userInput)
      isShortNumeric == FullMatch(trimmedInput, ShortNumericPattern)
      isJustNumbers == FullMatch(trimmedInput, JustNumbersPattern)
      isAutomatedMessage == voicemailPatterns(ToLowerCase(userInput))
  IN  IF FullMatch(trimmedInput, SixDigitPattern) THEN TRUE
      ELSE isAutomatedMessage \/ isShortNumeric \/ isJustNumbers

\* /^(a)\s*(b)?$/i with a from firsts and b from seconds
OpenerThenOptional(t, firsts, seconds) ==
  \E a \in firsts :
    /\ StartsAt(t, 1, a)
    /\ \E b \in seconds \cup {""} :
         LET restLen == Len(t) - Len(a) - Len(b)
         IN  /\ restLen >= 0
             /\ StartsAt(t, Len(t) - Len(b) + 1, b)
             /\ \A k \in (Len(a) + 1)..(Len(a) + restLen) : IsSpace(Ch(t, k))

isSessionEnding(userInput) ==
  LET t == ToLowerCase(Trim(userInput))
  IN  \/ t \in {"no", "nothing else", "that's it", "thats it", "i'm done", "im done",
                "all set", "wrap up", "finished", "bye", "goodbye"}
      \/ OpenerThenOptional(t, {"good", "ok", "sounds good", "alright", "perfect"},
                            {"bye", "goodbye", "thanks"})
      \/ OpenerThenOptional(t, {"thanks", "thank you", "appreciate it"},
                            {"bye", "goodbye"})
      \/ \E lit \in {"end call", "hang up", "gotta go", "have to go"} : Includes(t, lit)
      \/ Includes(t, "tomorrow")

\* /\b(add|create|schedule|remind|put.*calendar|todo)\b/i
needsTools(userInput) ==
  LET t == ToLowerCase(userInput)
  IN  \/ \E lit \in {"add", "create", "schedule", "remind", "todo"} : HasWord(t, lit)
      \/ \E i \in 1..Len(t) :
           /\ StartsAt(t, i, "put")
           /\ WordBoundary(t, i)
           /\ \E j \in (i + 3)..Len(t) :
                /\ StartsAt(t, j, "calendar")
                /\ NoLineBreak(t, i + 3, j - 1)
                /\ WordBoundary(t, j + 8)

\* /\b(will|going to|plan to|commit|promise)\b/i
isCommitment(userInput) ==
  LET t == ToLowerCase(userInput)
  IN  \E lit \in {"will", "going to", "plan to", "commit", "promise"} : HasWord(t, lit)

(***************************************************************************)
(* The insight extractor of gather.js: the priorities of a session.        *)
(***************************************************************************)
NoText == "<undefined>"

\* the end of the run of digits (of white space) that starts at i
RECURSIVE DigitRunEnd(_, _)
DigitRunEnd(s, i) ==
  IF i <= Len(s) /\ IsDigit(Ch(s, i)) THEN DigitRunEnd(s, i + 1) ELSE i

RECURSIVE SpaceRunEnd(_, _)
SpaceRunEnd(s, i) ==
  IF i <= Len(s) /\ IsSpace(Ch(s, i)) THEN SpaceRunEnd(s, i + 1) ELSE i

\* minutes?|mins?|hours?|hrs? in the order the alternation tries them
TimeUnits == <<"minutes", "minute", "mins", "min", "hours", "hour", "hrs", "hr">>

\* the length of the match of /\b(\d+)\s*(minutes?|mins?|hours?|hrs?)\b/i at i, 0 if none
TimeMatchLenAt(s, i) ==
  IF ~(i <= Len(s) /\ IsDigit(Ch(s, i)) /\ WordBoundary(s, i)) THEN 0
  ELSE LET low == ToLowerCase(s)
           u == SpaceRunEnd(s, DigitRunEnd(s, i))
           fits == {k \in 1..Len(TimeUnits) :
                      StartsAt(low, u, TimeUnits[k])
                      /\ WordBoundary(low, u + Len(TimeUnits[k]))}
       IN  IF fits = {} THEN 0
           ELSE LET k == CHOOSE k \in fits : \A j \in fits : k <= j
                IN  u + Len(TimeUnits[k]) - i

\* msg.match(/\b(\d+)\s*(minutes?|mins?|hours?|hrs?)\b/i)[0], "" if no match
TimeMatch(s) ==
  LET starts == {i \in 1..Len(s) : TimeMatchLenAt(s, i) > 0}
  IN  IF starts = {} THEN ""
      ELSE LET i == CHOOSE i \in starts : \A j \in starts : i <= j
           IN  SubSeq(s, i, i + TimeMatchLenAt(s, i) - 1)

ActionVerbs == {"start", "begin", "do", "work on", "focus on"}

\* a match of /\b(start|begin|do|work on|focus on)\s+([^.!?]*)/i starts at i
ActionStartsAt(s, i) ==
  /\ WordBoundary(s, i)
  /\ \E v \in ActionVerbs :
       StartsAt(ToLowerCase(s), i, v) /\ i + Len(v) <= Len(s) /\ IsSpace(Ch(s, i + Len(v)))

\* the first position from i on that holds one of . ! ? (Len(s) + 1 if none)
RECURSIVE SentenceEnd(_, _)
SentenceEnd(s, i) ==
  IF i <= Len(s) /\ Ch(s, i) \notin {".", "!", "?"} THEN SentenceEnd(s, i + 1) ELSE i

\* msg.match(/.../gi), each match trimmed, searching from position from on
RECURSIVE ActionMatches(_, _)
ActionMatches(s, from) ==
  LET starts == {i \in from..Len(s) : ActionStartsAt(s, i)}
  IN  IF starts = {} THEN <<>>
      ELSE LET i == CHOOSE i \in starts : \A j \in starts : i <= j
               e == SentenceEnd(s, i)
           IN  <<Trim(SubSeq(s, i, e - 1))>> \o ActionMatches(s, e)

\* habit.text.toLowerCase().split(' ')[0]
FirstWord(text) ==
  LET low == ToLowerCase(text)
      sp == {i \in 1..Len(low) : Ch(low, i) = " "}
  IN  IF sp = {} THEN low
      ELSE SubSeq(low, 1, (CHOOSE i \in sp : \A j \in sp : i <= j) - 1)

RECURSIVE HabitMentions(_, _)
HabitMentions(msg, habits) ==
  IF habits = <<>> THEN <<>>
  ELSE (IF Includes(ToLowerCase(msg), FirstWord(Head(habits).text))
        THEN <<Head(habits).text>> ELSE <<>>)
       \o HabitMentions(msg, Tail(habits))

\* what one user message pushes to taskMentions
MessageMentions(msg, habits) ==
  HabitMentions(msg, habits)
  \o (IF TimeMatch(msg) # "" THEN <<TimeMatch(msg) \o " commitment made">> ELSE <<>>)
  \o ActionMatches(msg, 1)

\* what the caller may say in one turn (req.body.SpeechResult)
Utterances ==
  {"", "you may hang up", "bye", "15", "add a task to call mom", "i will start the workout"}

\* (req.body.SpeechResult || '').trim() of every utterance the gateway delivers
UserInputs == {Trim(u) : u \in Utterances}

\* what getTodayPlan may return as habits
HabitChoices == {<<[text |-> "Workout 30 mins"]>>, <<[text |-> NoText]>>}

\* user turns of the sessions extractSessionInsights is applied to on its own
SessionTexts ==
  {"I'm exhausted, this is too hard", "i am ready but tired", "let me think",
   "this is urgent", "it was fine", "i will do the workout for 20 minutes",
   "then start the report"}

\* the habits of those sessions: none, one, one whose text is empty
SessionHabits == {<<>>, <<[text |-> "Workout 30 mins"]>>, <<[text |-> ""]>>}

\* the mentions of every message under every plan, evaluated once
MessageMentionsOf ==
  [msg \in UserInputs \cup SessionTexts |->
     [habits \in HabitChoices \cup SessionHabits |-> MessageMentions(msg, habits)]]

RECURSIVE taskMentions(_, _)
taskMentions(userMessages, habits) ==
  IF userMessages = <<>> THEN <<>>
  ELSE MessageMentionsOf[Head(userMessages)][habits]
       \o taskMentions(Tail(userMessages), habits)

\* a list handed on with its duplicates
Unique_keepsAll(list) == list

\* [...new Set(list)]
RECURSIVE Unique(_)
Unique(list) ==
  IF list = <<>> THEN <<>>
  ELSE LET init == Unique(SubSeq(list, 1, Len(list) - 1))
           last == list[Len(list)]
       IN  IF \E k \in 1..Len(init) : init[k] = last THEN init ELSE Append(init, last)

MaxPriorities == 3

\* conversationHistory.filter(msg => msg.role === 'user').map(msg => msg.content)
RECURSIVE userMessagesOf(_)
userMessagesOf(conversationHistory) ==
  IF conversationHistory = <<>> THEN <<>>
  ELSE (IF Head(conversationHistory).role = "user"
        THEN <<Head(conversationHistory).content>> ELSE <<>>)
       \o userMessagesOf(Tail(conversationHistory))

\* habit.text.toLowerCase() throws when a habit of the plan carries no text
extractionThrows(conversationHistory, habits) ==
  /\ userMessagesOf(conversationHistory) # <<>>
  /\ \E k \in 1..Len(habits) : habits[k].text = NoText

priorities(conversationHistory, habits) ==
  LET all == Unique(taskMentions(userMessagesOf(conversationHistory), habits))
  IN  SubSeq(all, 1, MinOf(MaxPriorities, Len(all)))

\* userMessages.join(' ')
RECURSIVE Join(_)
Join(userMessages) ==
  IF userMessages = <<>> THEN ""
  ELSE IF Len(userMessages) = 1 THEN Head(userMessages)
  ELSE Head(userMessages) \o " " \o Join(Tail(userMessages))

\* keyPoints.join('. ')
RECURSIVE JoinPoints(_)
JoinPoints(keyPoints) ==
  IF keyPoints = <<>> THEN ""
  ELSE IF Len(keyPoints) = 1 THEN Head(keyPoints)
  ELSE Head(keyPoints) \o ". " \o JoinPoints(Tail(keyPoints))

DefaultNotes == "Quick check-in completed"

\* the notes with the length qualifiers one turn early
notes_qualifiersOneEarly(conversationHistory, decisions, prios) ==
  LET userMessages == userMessagesOf(conversationHistory)
      keyPoints ==
        (IF Len(decisions) > 0
         THEN <<"Made " \o ToString(Len(decisions)) \o " commitments">> ELSE <<>>)
        \o (IF Len(prios) > 0 THEN <<"Focus: " \o prios[1]>> ELSE <<>>)
        \o (IF Len(userMessages) >= 3 THEN <<"Extended conversation">>
            ELSE IF Len(userMessages) >= 1 THEN <<"Brief interaction">>
            ELSE <<>>)
  IN  IF JoinPoints(keyPoints) = "" THEN DefaultNotes ELSE JoinPoints(keyPoints)

\* lines 338-357: the notes digest; decisions is session.sessionData.decisions || []
notes(conversationHistory, decisions, prios) ==
  LET userMessages == userMessagesOf(conversationHistory)
      keyPoints ==
        (IF Len(decisions) > 0
         THEN <<"Made " \o ToString(Len(decisions)) \o " commitments">> ELSE <<>>)
        \o (IF Len(prios) > 0 THEN <<"Focus: " \o prios[1]>> ELSE <<>>)
        \o (IF Len(userMessages) > 3 THEN <<"Extended conversation">>
            ELSE IF Len(userMessages) > 1 THEN <<"Brief interaction">>
            ELSE <<>>)
  IN  IF JoinPoints(keyPoints) = "" THEN DefaultNotes ELSE JoinPoints(keyPoints)

\* userMessages.join(' ').toLowerCase()
combinedText(conversationHistory) == ToLowerCase(Join(userMessagesOf(conversationHistory)))

\* the alternatives of the four tone patterns, lines 324, 327, 330, 333
PositiveWords ==
  {"good", "great", "excellent", "awesome", "ready", "excited", "energized", "yes",
   "absolutely", "perfect"}

LowWords ==
  {"tired", "slow", "difficult", "hard", "struggle", "overwhelmed", "no", "maybe", "unsure"}

NeutralWords == {"ok", "fine", "decent", "normal", "alright", "sure"}

FocusWords == {"focused", "concentrate", "priority", "important", "urgent"}

\* /word|word|.../.test(text)
TestAny(text, words) == \E w \in words : Includes(text, w)

Tone(mood, energyLevel) == [mood |-> mood, energyLevel |-> energyLevel]

\* the tone analysis with the struggle pattern tried ahead of the positive one
moodOf_lowFirst(text) ==
  IF TestAny(text, LowWords) THEN Tone("Low", "Low")
  ELSE IF TestAny(text, PositiveWords) THEN Tone("Positive", "High")
  ELSE IF TestAny(text, NeutralWords) THEN Tone("Neutral", "Medium")
  ELSE IF TestAny(text, FocusWords) THEN Tone("Focused", "High")
  ELSE Tone("Neutral", "Medium")

\* insights.mood and insights.energyLevel, lines 281-282 and 323-336
moodOf(text) ==
  IF TestAny(text, PositiveWords) THEN Tone("Positive", "High")
  ELSE IF TestAny(text, LowWords) THEN Tone("Low", "Low")
  ELSE IF TestAny(text, NeutralWords) THEN Tone("Neutral", "Medium")
  ELSE IF TestAny(text, FocusWords) THEN Tone("Focused", "High")
  ELSE Tone("Neutral", "Medium")

EndingMessages ==
  {"Good session. Execute those plans.", "Solid check-in. Make it happen.",
   "Plans set. Time to work.", "Clear priorities. Go execute.",
   "Session logged. Get after it."}

MaxSpokenPriority == 30

\* priority.substring(0, 30).split(' ').slice(0, -1).join(' ')
DropLastWord(s) ==
  LET sp == {i \in 1..Len(s) : Ch(s, i) = " "}
  IN  IF sp = {} THEN ""
      ELSE SubSeq(s, 1, (CHOOSE i \in sp : \A j \in sp : j <= i) - 1)

shortPriority(priority) ==
  IF Len(priority) > MaxSpokenPriority
  THEN DropLastWord(SubSeq(priority, 1, MaxSpokenPriority))
  ELSE priority

\* the lines getEndingMessage may return (Math.random picks among the generic ones)
getEndingMessage(prios) ==
  IF Len(prios) > 0 THEN {shortPriority(prios[1]) \o " locked in. Execute."}
  ELSE EndingMessages

(***************************************************************************)
(* The state: the session registry of utils/sessionManager.js, the context *)
(* store of memory/context.js, the external logs, and the handler          *)
(* invocations that are suspended at an await.                             *)
(***************************************************************************)
Calls == {"CA1", "CA2"}

\* the call the gateway delivers events for when calls are taken one at a time
OneCall == {"CA1"}

CallStatuses == {"in-progress", "completed", "no-answer", "failed", "canceled"}

\* the statuses that come with an utterance
GatherStatuses == {"in-progress", "completed", "failed"}

TerminalStatuses == {"completed", "no-answer", "failed"}

MaxEvents == 2

MaxInflight == 2

NoPlan == [loaded |-> FALSE, habits |-> <<>>]

NoCtx == [has |-> FALSE, messages |-> <<>>]

systemPrompt == "You are a dominant, results-driven life coach AI"

VoicemailLine == "Voicemail detected. Call back when you can actually talk."

SessionCompleteLine == "Session complete. Talk tomorrow!"

FallbackReply == "Let's stay focused. What's your main priority?"

FallbackOpener == "Morning. Time to work. What's first?"

VARIABLES
  sessions,     \* the Session objects constructed so far, by their number
  registry,     \* sessionManager's map: call id -> number of its session, 0 if absent
  ctx,          \* the context store: call id -> message list (NoCtx if absent)
  missedLog,    \* how many records notionClient.logMissedCall wrote, by call
  sessionLog,   \* how many sessions endSession persisted, by call
  exchangeLog,  \* how many records log.insertOne wrote, by call
  finalized,    \* whether an endSession(callSid) has completed, by call
  inflight,     \* handler invocations suspended at an await
  nEvents,      \* gateway events delivered so far
  last          \* the invocation that finished in the last step (a set of at most one)

vars ==
  <<sessions, registry, ctx, missedLog, sessionLog, exchangeLog, finalized, inflight,
    nEvents, last>>

logs == <<missedLog, sessionLog, exchangeLog>>

TerminalStates == {"ended", "voicemail"}

\* new Session(callSid)
NewSession(c) ==
  [callSid |-> c, state |-> "initializing", sessionType |-> "unknown",
   exchanges |-> <<>>, decisions |-> <<>>, todaysPlan |-> NoPlan, endedAt |-> FALSE]

\* a Session object nothing refers to any more
Collected ==
  [callSid |-> "", state |-> "collected", sessionType |-> "unknown",
   exchanges |-> <<>>, decisions |-> <<>>, todaysPlan |-> NoPlan, endedAt |-> TRUE]

\* getSession(callSid): creates the session on first access
getSessionSessions(ss, reg, c) ==
  IF reg[c] # 0 THEN ss ELSE Append(ss, NewSession(c))

getSessionRegistry(ss, reg, c) ==
  IF reg[c] # 0 THEN reg ELSE [reg EXCEPT ![c] = Len(ss) + 1]

\* session.markAsVoicemail()
markAsVoicemail(sess) ==
  IF sess.state \in TerminalStates THEN sess
  ELSE [sess EXCEPT !.sessionType = "voicemail", !.state = "voicemail", !.endedAt = TRUE]

\* session.setState(newState)
setState(sess, newState) ==
  IF sess.state \in TerminalStates THEN sess ELSE [sess EXCEPT !.state = newState]

\* session.addExchange(userText, agentText, meta)
addExchange(sess, userText, agentText, toolUsed, toolSuccess) ==
  [sess EXCEPT !.exchanges =
     Append(@, [user |-> userText, assistant |-> agentText,
                toolUsed |-> toolUsed, toolSuccess |-> toolSuccess])]

\* session.addDecision(text)
addDecision(sess, text) == [sess EXCEPT !.decisions = Append(@, text)]

\* endSession(callSid): whether it persists the session of call c
endSessionLogs(ss, reg, c) == reg[c] # 0

endSessionSessions(ss, reg, c) ==
  IF reg[c] # 0 /\ ss[reg[c]].state \notin TerminalStates
  THEN [ss EXCEPT ![reg[c]] = [@ EXCEPT !.state = "ended", !.endedAt = TRUE]]
  ELSE ss

endSessionRegistry(reg, c) == [reg EXCEPT ![c] = 0]

\* a clear that empties the whole store
ctxClear_everyCall(store, c) == [b \in Calls |-> NoCtx]

\* ctx.clear(callSid)
ctxClear(store, c) == [store EXCEPT ![c] = NoCtx]

\* ctx.set(callSid, history)
ctxSet(store, c, history) == [store EXCEPT ![c] = [has |-> TRUE, messages |-> history]]

\* ctx.get(callSid) || []
ctxGetOrEmpty(store, c) == IF store[c].has THEN store[c].messages ELSE <<>>

Msg(role, content) == [role |-> role, content |-> content]

\* TwiML verbs of a response
Say(line) == [verb |-> "say", line |-> line]

Gather == [verb |-> "gather", line |-> ""]

Hangup == [verb |-> "hangup", line |-> ""]

NoLlm == [type |-> "none", action |-> "", originalResponse |-> ""]

\* the session of call c has reached ended or voicemail: endSession persisted it, or it
\* is still registered in a terminal state
ReachedTerminal(c) ==
  \/ sessionLog[c] > 0
  \/ registry[c] # 0 /\ sessions[registry[c]].state \in TerminalStates

\* a handler invocation at its entry
NewInvocation(handler, c, userInput, callStatus) ==
  [id |-> nEvents + 1, handler |-> handler, callSid |-> c, userInput |-> userInput,
   CallStatus |-> callStatus, pc |-> "start", path |-> "", session |-> 0,
   history |-> <<>>, priorities |-> <<>>, llm |-> NoLlm, reply |-> "",
   toolUsed |-> "", toolSuccess |-> FALSE, sessionState |-> "",
   logsConfigured |-> FALSE, trace |-> <<>>, wrote |-> <<>>,
   afterTerminal |-> ReachedTerminal(c)]

\* the invocation finished: what the gateway got back
Finished(r, outcome, response) ==
  [r EXCEPT !.pc = "done"] @@ [outcome |-> outcome, response |-> response]

CanReceive == nEvents < MaxEvents /\ Cardinality(inflight) < MaxInflight

\* the gateway waits for the response to a voice or gather request of a call before it
\* sends the next one of that call; status callbacks come at any time
AwaitsResponse(c) ==
  \E r \in inflight : r.callSid = c /\ r.handler \in {"voice", "gather"}

Init ==
  /\ sessions = <<>>
  /\ registry = [c \in Calls |-> 0]
  /\ ctx = [c \in Calls |-> NoCtx]
  /\ missedLog = [c \in Calls |-> 0]
  /\ sessionLog = [c \in Calls |-> 0]
  /\ exchangeLog = [c \in Calls |-> 0]
  /\ finalized = [c \in Calls |-> FALSE]
  /\ inflight = {}
  /\ nEvents = 0
  /\ last = {}

\* the invocation r goes on to its next await as r2
Suspend(r, r2) == inflight' = {q \in inflight : q.id # r.id} \cup {r2} /\ last' = {}

\* the invocation r ends: outcome "sent" (a response went out) or "escaped" (it threw)
Finish(r, outcome, response) ==
  inflight' = {q \in inflight : q.id # r.id} /\ last' = {Finished(r, outcome, response)}

Traced(r, marks) == [r EXCEPT !.trace = @ \o marks]

\* a record an invocation wrote to an external log
Wrote(r, log, detail) ==
  [r EXCEPT !.wrote = Append(@, [log |-> log, callSid |-> r.callSid, detail |-> detail])]

\* the Session objects something still refers to; the others are garbage
RECURSIVE Collect(_, _, _)
Collect(ss, reg, invocations) ==
  IF ss = <<>> THEN <<>>
  ELSE LET o == Len(ss)
           alive == (\E c \in Calls : reg[c] = o) \/ (\E r \in invocations : r.session = o)
       IN  Append(Collect(SubSeq(ss, 1, o - 1), reg, invocations),
                  IF alive THEN ss[o] ELSE Collected)

\* the stores after a step (inflight' and last' are set before)
Stores(ss, reg, cx) ==
  /\ registry' = reg
  /\ ctx' = cx
  /\ sessions' = Collect(ss, reg, inflight' \cup last')

StoresUnchanged == Stores(sessions, registry, ctx)

(***************************************************************************)
(* handleGather, gather.js lines 11-162.                                   *)
(***************************************************************************)
\* the classifiers on those inputs, evaluated once
isVoicemailMessageOf == [u \in UserInputs |-> isVoicemailMessage(u)]

isSessionEndingOf == [u \in UserInputs |-> isSessionEnding(u)]

needsToolsOf == [u \in UserInputs |-> needsTools(u)]

isCommitmentOf == [u \in UserInputs |-> isCommitment(u)]

\* the branches with the end-intent check ahead of the voicemail check
gatherBranch_endIntentFirst(userInput, callStatus) ==
  IF isSessionEndingOf[userInput] THEN "sessionEnd"
  ELSE IF isVoicemailMessageOf[userInput] THEN "voicemail"
  ELSE IF callStatus \in {"completed", "no-answer"} THEN "status"
  ELSE "normal"

\* the branch handleGather takes: lines 20, 44, 50, 56
gatherBranch(userInput, callStatus) ==
  IF isVoicemailMessageOf[userInput] THEN "voicemail"
  ELSE IF isSessionEndingOf[userInput] THEN "sessionEnd"
  ELSE IF callStatus \in {"completed", "no-answer"} THEN "status"
  ELSE "normal"

\* lines 20-29: the session is marked, then logMissedCall or endSession is awaited
voicemailStart(r, logsConfigured) ==
  LET c == r.callSid
      ss == getSessionSessions(sessions, registry, c)
      reg == getSessionRegistry(sessions, registry, c)
      o == reg[c]
  IN  /\ Suspend(r, Traced([r EXCEPT !.path = "voicemail", !.session = o,
                              !.logsConfigured = logsConfigured,
                              !.pc = IF logsConfigured THEN "logMissedCall"
                                     ELSE "endSession"],
                           <<"markAsVoicemail">>))
      /\ Stores([ss EXCEPT ![o] = markAsVoicemail(@)], reg, ctx)
      /\ UNCHANGED <<logs, finalized>>

\* the habits extractSessionInsights reads: session.sessionData.todaysPlan?.habits
habitsOf(sess) == IF sess.todaysPlan.loaded THEN sess.todaysPlan.habits ELSE <<>>

\* a catch block that speaks the generic line and keeps the line open
sessionEndFallback_noHangup == <<Say(SessionCompleteLine), Gather>>

\* the closing response of the catch block of handleSessionEnd, lines 266-273
sessionEndFallback == <<Say(SessionCompleteLine), Hangup>>

\* handleSessionEnd up to its await, lines 238-252
sessionEndStart(r) ==
  LET c == r.callSid
      ss == getSessionSessions(sessions, registry, c)
      reg == getSessionRegistry(sessions, registry, c)
      o == reg[c]
      conversationHistory == ctxGetOrEmpty(ctx, c)
      r1 == [r EXCEPT !.path = "sessionEnd", !.session = o,
                      !.history = conversationHistory]
  IN  /\ UNCHANGED <<logs, finalized>>
      /\ IF extractionThrows(conversationHistory, habitsOf(ss[o]))
         THEN /\ Finish(Traced(r1, <<"extractSessionInsights throws">>), "sent",
                        sessionEndFallback)
              /\ Stores(ss, reg, ctx)
         ELSE /\ Suspend(r, Traced([r1 EXCEPT !.pc = "endSession",
                                      !.priorities =
                                        priorities(conversationHistory, habitsOf(ss[o]))],
                                   <<"extractSessionInsights", "setState">>))
              /\ Stores([ss EXCEPT ![o] = setState(@, "ending")], reg, ctx)

\* lines 50-52
statusStart(r) ==
  /\ Suspend(r, [r EXCEPT !.path = "status", !.pc = "endSession"])
  /\ StoresUnchanged
  /\ UNCHANGED <<logs, finalized>>

\* session.sessionData.dayAnalysis, which line 93 reads when no tool is asked for
DayAnalysisOf(userInput) == IF needsToolsOf[userInput] THEN {FALSE} ELSE BOOLEAN

\* lines 56-108: a normal turn up to its first await
normalStart(r, dayAnalysis) ==
  LET c == r.callSid
      ss == getSessionSessions(sessions, registry, c)
      reg == getSessionRegistry(sessions, registry, c)
      o == reg[c]
      history == Append(ctxGetOrEmpty(ctx, c), Msg("user", r.userInput))
      next == IF needsToolsOf[r.userInput] THEN "llmReplyWithTools"
              ELSE IF dayAnalysis THEN "generateConversationalResponse"
              ELSE "llmReply"
  IN  /\ Suspend(r, [r EXCEPT !.path = "normal", !.session = o, !.history = history,
                              !.pc = next])
      /\ Stores([ss EXCEPT ![o] =
                   IF @.sessionType = "unknown"
                   THEN [@ EXCEPT !.sessionType = "conversation"] ELSE @],
                reg, ctx)
      /\ UNCHANGED <<logs, finalized>>

handleGather(c, speechResult, callStatus) ==
  /\ CanReceive /\ ~AwaitsResponse(c)
  /\ nEvents' = nEvents + 1
  /\ LET r == NewInvocation("gather", c, Trim(speechResult), callStatus)
         branch == gatherBranch(r.userInput, callStatus)
     IN  CASE branch = "voicemail" ->
                \E logsConfigured \in BOOLEAN : voicemailStart(r, logsConfigured)
           [] branch = "sessionEnd" -> sessionEndStart(r)
           [] branch = "status" -> statusStart(r)
           [] OTHER ->
                \E dayAnalysis \in DayAnalysisOf(r.userInput) : normalStart(r, dayAnalysis)

Outcomes == {"ok", "throws"}

Waiting(handler, pc, path) ==
  {r \in inflight : r.handler = handler /\ r.pc = pc /\ r.path = path}

Bump(log, c) == [log EXCEPT ![c] = @ + 1]

\* await notionClient.logMissedCall(db, to, reason) resolved
MissedCallLogged(r, reason) ==
  /\ missedLog' = Bump(missedLog, r.callSid)
  /\ Suspend(r, Traced(Wrote([r EXCEPT !.pc = "endSession"], "missed call", reason),
                       <<"logMissedCall">>))

\* await endSession(callSid) resolved, followed by ctx.clear(callSid) when clears;
\* the invocation then ends with the response
EndSessionDone(r, clears, response) ==
  LET c == r.callSid
      persists == endSessionLogs(sessions, registry, c)
      r1 == IF persists THEN Wrote(r, "session", "ended") ELSE r
  IN  /\ Finish(Traced(r1, IF clears THEN <<"endSession", "ctx.clear">>
                           ELSE <<"endSession">>),
                "sent", response)
      /\ Stores(endSessionSessions(sessions, registry, c), endSessionRegistry(registry, c),
                IF clears THEN ctxClear(ctx, c) ELSE ctx)
      /\ sessionLog' = IF persists THEN Bump(sessionLog, c) ELSE sessionLog
      /\ finalized' = [finalized EXCEPT ![c] = TRUE]

\* an await threw and nothing catches it: the handler's promise rejects
Escapes(r, mark) ==
  /\ Finish(Traced(r, <<mark>>), "escaped", <<>>)
  /\ StoresUnchanged

\* a voicemail path that speaks its line and keeps listening
voicemailResponse_keepsListening == <<Say(VoicemailLine), Gather>>

\* the response of the voicemail path, lines 37-38
voicemailResponse == <<Say(VoicemailLine), Hangup>>

\* line 29 resolves or throws
handleGather_logMissedCall ==
  \E r \in Waiting("gather", "logMissedCall", "voicemail"), outcome \in Outcomes :
    /\ UNCHANGED <<sessionLog, exchangeLog, finalized, nEvents>>
    /\ IF outcome = "ok"
       THEN MissedCallLogged(r, "voicemail-answered") /\ StoresUnchanged
       ELSE Escapes(r, "logMissedCall throws") /\ UNCHANGED missedLog

\* lines 34-40
handleGather_voicemailEnd ==
  \E r \in Waiting("gather", "endSession", "voicemail"), outcome \in Outcomes :
    /\ UNCHANGED <<missedLog, exchangeLog, nEvents>>
    /\ IF outcome = "ok"
       THEN EndSessionDone(r, TRUE, voicemailResponse)
       ELSE Escapes(r, "endSession throws") /\ UNCHANGED <<sessionLog, finalized>>

\* the closing response of handleSessionEnd, lines 258-261
sessionEndResponse(line) == <<Say(line), Hangup>>

\* handleSessionEnd from its await on, lines 252-273
handleSessionEnd_endSession ==
  \E r \in Waiting("gather", "endSession", "sessionEnd"), outcome \in Outcomes :
    /\ UNCHANGED <<missedLog, exchangeLog, nEvents>>
    /\ IF outcome = "ok"
       THEN \E line \in getEndingMessage(r.priorities) :
              EndSessionDone(r, TRUE, sessionEndResponse(line))
       ELSE /\ Finish(Traced(r, <<"endSession throws">>), "sent", sessionEndFallback)
            /\ StoresUnchanged
            /\ UNCHANGED <<sessionLog, finalized>>

\* lines 52-53: the call ended by status; the context is left as it is
handleGather_statusEnd ==
  \E r \in Waiting("gather", "endSession", "status"), outcome \in Outcomes :
    /\ UNCHANGED <<missedLog, exchangeLog, nEvents>>
    /\ IF outcome = "ok"
       THEN EndSessionDone(r, FALSE, <<>>)
       ELSE Escapes(r, "endSession throws") /\ UNCHANGED <<sessionLog, finalized>>

\* the response of a normal turn, lines 140-149
turnResponse(assistantReply) == <<Say(assistantReply), Gather>>

\* the response of the catch block of handleGather, lines 151-161
fallbackResponse == <<Say(FallbackReply), Gather>>

\* lines 111-136: the reply is known; everything up to await log.insertOne
finishTurn(r, assistantReply, toolUsed, toolSuccess, added) ==
  LET c == r.callSid
      o == r.session
      history == Append(r.history, Msg("assistant", assistantReply))
      s1 == IF added THEN addDecision(sessions[o], "Added") ELSE sessions[o]
      s2 == addExchange(s1, r.userInput, assistantReply, toolUsed, toolSuccess)
      s3 == IF isCommitmentOf[r.userInput] THEN addDecision(s2, "User commitment") ELSE s2
  IN  /\ Suspend(r, Traced([r EXCEPT !.pc = "log.insertOne", !.history = history,
                              !.reply = assistantReply, !.toolUsed = toolUsed,
                              !.toolSuccess = toolSuccess,
                              !.sessionState = s3.state],
                           (IF added THEN <<"addDecision">> ELSE <<>>)
                           \o <<"ctx.set", "addExchange">>
                           \o (IF isCommitmentOf[r.userInput]
                               THEN <<"addDecision">> ELSE <<>>)))
      /\ Stores([sessions EXCEPT ![o] = s3], registry, ctxSet(ctx, c, history))
      /\ UNCHANGED <<logs, finalized>>

\* the catch block of handleGather
turnFails(r, mark) ==
  /\ Finish(Traced(r, <<mark>>), "sent", fallbackResponse)
  /\ StoresUnchanged
  /\ UNCHANGED <<logs, finalized>>

\* what llmReplyWithTools may resolve to
ToolReplies ==
  [type : {"tool_call"}, action : {"add_task", "add_event", "other"},
   originalResponse : {"", "<llm tool reply>"}]
  \cup {[type |-> "text", action |-> "", originalResponse |-> ""]}

\* process.env.NOTION_TASKS_DB_ID or GOOGLE_CALENDAR_ACCESS_TOKEN, lines 388, 404
ToolConfigurations(action) ==
  IF action \in {"add_task", "add_event"} THEN BOOLEAN ELSE {FALSE}

\* the message of a tool result, lines 394-428
toolMessage(action, result) ==
  CASE result = "throws" -> "Something went wrong."
    [] action = "add_task" /\ result = "unconfigured" -> "Tasks not configured."
    [] action = "add_task" /\ result = "truthy" -> "Added to your tasks."
    [] action = "add_task" -> "Task creation failed."
    [] action = "add_event" /\ result = "unconfigured" -> "Calendar not configured."
    [] action = "add_event" /\ result = "truthy" -> "Added to your calendar."
    [] action = "add_event" -> "Calendar event failed."
    [] OTHER -> "Unknown action."

\* toolResult.tool
toolName(action, result) ==
  IF result # "throws" /\ action \notin {"add_task", "add_event"} THEN "unknown" ELSE action

\* lines 81-82
toolReply(llm, result) ==
  IF llm.originalResponse # "" THEN llm.originalResponse
  ELSE IF result = "truthy" THEN "Got it. " \o toolMessage(llm.action, result)
  ELSE "Couldn't add that. " \o toolMessage(llm.action, result)

\* lines 80-87 once executeToolCall has its result
toolTurn(r, llm, result) ==
  finishTurn(Traced(r, <<"executeToolCall">>), toolReply(llm, result),
             toolName(llm.action, result), result = "truthy", result = "truthy")

\* lines 77-90: llmReplyWithTools resolves or throws
handleGather_llmReplyWithTools ==
  \E r \in Waiting("gather", "llmReplyWithTools", "normal") :
    /\ UNCHANGED nEvents
    /\ \/ turnFails(r, "llmReplyWithTools throws")
       \/ \E llm \in ToolReplies :
            LET r1 == Traced([r EXCEPT !.llm = llm], <<"llmReplyWithTools">>)
            IN  IF llm.type # "tool_call"
                THEN finishTurn(r1, "<llm reply>", "", FALSE, FALSE)
                ELSE \E configured \in ToolConfigurations(llm.action) :
                       IF configured
                       THEN /\ Suspend(r, [r1 EXCEPT !.pc = "toolDispatch"])
                            /\ StoresUnchanged
                            /\ UNCHANGED <<logs, finalized>>
                       ELSE toolTurn(r1, llm,
                                     IF llm.action \in {"add_task", "add_event"}
                                     THEN "unconfigured" ELSE "unknown")

\* notionClient.addTask or calendarClient.addEvent resolves or throws, lines 389, 405
handleGather_toolDispatch ==
  \E r \in Waiting("gather", "toolDispatch", "normal"),
     result \in {"truthy", "falsy", "throws"} :
    /\ UNCHANGED nEvents
    /\ toolTurn(Traced(r, <<"dispatch">>), r.llm, result)

\* lines 96-103
handleGather_generateConversationalResponse ==
  \E r \in Waiting("gather", "generateConversationalResponse", "normal"),
     outcome \in Outcomes :
    /\ UNCHANGED nEvents
    /\ IF outcome = "ok"
       THEN finishTurn(Traced(r, <<"generateConversationalResponse">>),
                       "<contextual reply>", "", FALSE, FALSE)
       ELSE /\ Suspend(r, Traced([r EXCEPT !.pc = "llmReply"],
                                 <<"generateConversationalResponse throws">>))
            /\ StoresUnchanged
            /\ UNCHANGED <<logs, finalized>>

\* lines 102, 107
handleGather_llmReply ==
  \E r \in Waiting("gather", "llmReply", "normal"), outcome \in Outcomes :
    /\ UNCHANGED nEvents
    /\ IF outcome = "ok"
       THEN finishTurn(Traced(r, <<"llmReply">>), "<llm reply>", "", FALSE, FALSE)
       ELSE turnFails(r, "llmReply throws")

\* lines 127-149
handleGather_logInsertOne ==
  \E r \in Waiting("gather", "log.insertOne", "normal"), outcome \in Outcomes :
    /\ UNCHANGED <<nEvents, missedLog, sessionLog, finalized>>
    /\ IF outcome = "ok"
       THEN /\ exchangeLog' = Bump(exchangeLog, r.callSid)
            /\ Finish(Traced(Wrote(r, "exchange", r.sessionState), <<"log.insertOne">>),
                      "sent", turnResponse(r.reply))
       ELSE /\ exchangeLog' = exchangeLog
            /\ Finish(Traced(r, <<"log.insertOne throws">>), "sent", fallbackResponse)
    /\ StoresUnchanged

(***************************************************************************)
(* handleVoice and handleStatus, voice.js.                                 *)
(***************************************************************************)
\* what generateDominantOpener returns: a greeting built from the plan
generateDominantOpener == "<dominant opener>"

\* the response of handleVoice, lines 55-79
voiceResponse(opener) ==
  <<Say(opener), Gather,
    Say("Still there? Stop wasting time. What are you doing first?"), Gather,
    Say("Not responding counts as avoidance. Call me back when you are ready to work."),
    Hangup>>

\* the response of the catch block of handleVoice, lines 92-106
voiceFallbackResponse ==
  <<Say(FallbackOpener), Gather, Say("Call back when ready."), Hangup>>

\* the context a call starts with, lines 40-43 and 87-90
openingContext(opener) == <<Msg("system", systemPrompt), Msg("assistant", opener)>>

\* lines 11-26
handleVoice(c, callStatus) ==
  /\ CanReceive /\ ~AwaitsResponse(c)
  /\ nEvents' = nEvents + 1
  /\ UNCHANGED <<logs, finalized>>
  /\ LET r == NewInvocation("voice", c, "", callStatus)
     IN  IF callStatus \in {"completed", "no-answer", "failed"}
         THEN Suspend(r, [r EXCEPT !.path = "status", !.pc = "endSession"])
         ELSE Suspend(r, [r EXCEPT !.path = "start", !.pc = "getTodayPlan"])
  /\ StoresUnchanged

\* lines 19-21
handleVoice_endSession ==
  \E r \in Waiting("voice", "endSession", "status"), outcome \in Outcomes :
    /\ UNCHANGED <<missedLog, exchangeLog, nEvents>>
    /\ IF outcome = "ok"
       THEN EndSessionDone(r, TRUE, <<>>)
       ELSE Escapes(r, "endSession throws") /\ UNCHANGED <<sessionLog, finalized>>

\* lines 26-107: getTodayPlan resolves with the habits, or throws
handleVoice_getTodayPlan ==
  \E r \in Waiting("voice", "getTodayPlan", "start") :
    /\ UNCHANGED <<logs, finalized, nEvents>>
    /\ \/ \E habits \in HabitChoices :
            LET c == r.callSid
                ss == getSessionSessions(sessions, registry, c)
                reg == getSessionRegistry(sessions, registry, c)
                o == reg[c]
                opener == generateDominantOpener
                s1 == [ss[o] EXCEPT !.todaysPlan = [loaded |-> TRUE, habits |-> habits]]
                s2 == addExchange(s1, "SESSION_START", opener, "", FALSE)
            IN  /\ Finish(Traced([r EXCEPT !.session = o],
                                 <<"getTodayPlan", "ctx.set", "addExchange", "setState">>),
                          "sent", voiceResponse(opener))
                /\ Stores([ss EXCEPT ![o] = setState(s2, "overview")], reg,
                          ctxSet(ctx, c, openingContext(opener)))
       \/ /\ Finish(Traced(r, <<"getTodayPlan throws", "ctx.set">>), "sent",
                    voiceFallbackResponse)
          /\ Stores(sessions, registry, ctxSet(ctx, r.callSid, openingContext(FallbackOpener)))

\* the statuses handleStatus logs as a missed call, line 179
MissedStatuses == {"no-answer", "failed", "canceled"}

\* lines 171-199 up to the first await
handleStatus(c, callStatus) ==
  /\ CanReceive
  /\ nEvents' = nEvents + 1
  /\ UNCHANGED <<logs, finalized>>
  /\ LET r == NewInvocation("status", c, "", callStatus)
     IN  IF callStatus \in MissedStatuses
         THEN \E logsConfigured \in BOOLEAN :
                Suspend(r, [r EXCEPT !.path = "missed",
                                     !.logsConfigured = logsConfigured,
                                     !.pc = IF logsConfigured THEN "logMissedCall"
                                            ELSE "endSession"])
         ELSE IF callStatus = "completed"
         THEN Suspend(r, [r EXCEPT !.path = "completed", !.pc = "endSession"])
         ELSE Finish([r EXCEPT !.path = "other"], "sent", <<>>)
  /\ StoresUnchanged

\* line 184 resolves or throws
handleStatus_logMissedCall ==
  \E r \in Waiting("status", "logMissedCall", "missed"), outcome \in Outcomes :
    /\ UNCHANGED <<sessionLog, exchangeLog, finalized, nEvents>>
    /\ IF outcome = "ok"
       THEN MissedCallLogged(r, r.CallStatus) /\ StoresUnchanged
       ELSE Escapes(r, "logMissedCall throws") /\ UNCHANGED missedLog

\* lines 189-190 and 195-196, then line 199
handleStatus_endSession ==
  \E r \in {q \in inflight : q.handler = "status" /\ q.pc = "endSession"},
     outcome \in Outcomes :
    /\ UNCHANGED <<missedLog, exchangeLog, nEvents>>
    /\ IF outcome = "ok"
       THEN EndSessionDone(r, TRUE, <<>>)
       ELSE Escapes(r, "endSession throws") /\ UNCHANGED <<sessionLog, finalized>>

Next ==
  \/ \E c \in OneCall, u \in Utterances, st \in GatherStatuses : handleGather(c, u, st)
  \/ handleGather_logMissedCall
  \/ handleGather_voicemailEnd
  \/ handleSessionEnd_endSession
  \/ handleGather_statusEnd
  \/ handleGather_llmReplyWithTools
  \/ handleGather_toolDispatch
  \/ handleGather_generateConversationalResponse
  \/ handleGather_llmReply
  \/ handleGather_logInsertOne
  \/ \E c \in OneCall, st \in CallStatuses : handleVoice(c, st)
  \/ handleVoice_endSession
  \/ handleVoice_getTodayPlan
  \/ \E c \in OneCall, st \in CallStatuses : handleStatus(c, st)
  \/ handleStatus_logMissedCall
  \/ handleStatus_endSession

Spec == Init /\ [][Next]_vars

\* the same handlers with the events of two calls interleaved
TwoCallsNext ==
  \/ \E c \in Calls, u \in Utterances, st \in GatherStatuses : handleGather(c, u, st)
  \/ handleGather_logMissedCall
  \/ handleGather_voicemailEnd
  \/ handleSessionEnd_endSession
  \/ handleGather_statusEnd
  \/ handleGather_llmReplyWithTools
  \/ handleGather_toolDispatch
  \/ handleGather_generateConversationalResponse
  \/ handleGather_llmReply
  \/ handleGather_logInsertOne
  \/ \E c \in Calls, st \in CallStatuses : handleVoice(c, st)
  \/ handleVoice_endSession
  \/ handleVoice_getTodayPlan
  \/ \E c \in Calls, st \in CallStatuses : handleStatus(c, st)
  \/ handleStatus_logMissedCall
  \/ handleStatus_endSession

TwoCallsSpec == Init /\ [][TwoCallsNext]_vars

(***************************************************************************)
(* The pure functions of gather.js applied to inputs of their own: the     *)
(* initial state holds one input, a step applies the function and leaves   *)
(* the result in last.                                                     *)
(***************************************************************************)
RECURSIVE StringsOf(_, _)
\* the strings of length n over an alphabet
StringsOf(alphabet, n) ==
  IF n = 0 THEN {""} ELSE {s \o a : s \in StringsOf(alphabet, n - 1), a \in alphabet}

Separators == {"", " ", "-", "."}

\* bare phone numbers: three, three and four digits with optional separators
PhoneShapes == {"858" \o a \o "386" \o b \o "6200" : a, b \in Separators}

MaxDigitsAndPeriods == 5

\* inputs of digits and periods only, of length 3 and more
DigitPeriodShapes ==
  UNION {StringsOf({"7", "."}, n) : n \in 3..MaxDigitsAndPeriods}
  \cup {"866200.", "1.2.3", "12.", "866 200."}

ClassifierInputs ==
  PhoneShapes \cup DigitPeriodShapes \cup Utterances
  \cup {"that's it, thanks", "that's it", "thanks bye", "add a reminder to call the dentist"}

MaxTurns == 2

\* what the agent answers in those sessions: a text with a time and an action of its own
SessionReply == "Good. Start the plan for 45 minutes."

\* the context of a call after its start and the user turns texts, each one answered
RECURSIVE HistoryOf(_)
HistoryOf(texts) ==
  IF texts = <<>> THEN openingContext(generateDominantOpener)
  ELSE HistoryOf(SubSeq(texts, 1, Len(texts) - 1))
       \o <<Msg("user", texts[Len(texts)]), Msg("assistant", SessionReply)>>

MaxLongTurns == 4

\* the texts of the longer sessions
LongSessionTexts == {"it was fine", "then start the report"}

SessionHistories ==
  {HistoryOf(texts) : texts \in UNION {[1..n -> SessionTexts] : n \in 0..MaxTurns}}
  \cup {HistoryOf(texts) :
          texts \in UNION {[1..n -> LongSessionTexts] : n \in (MaxTurns + 1)..MaxLongTurns}}

\* the decisions a session has collected when it ends
SessionDecisions ==
  {<<>>, <<"i will start the workout">>, <<"i will start the workout", "i will start the workout">>}

\* an input waiting for its function
Input(kind, text, history, habits, decisions) ==
  [kind |-> kind, text |-> text, history |-> history, habits |-> habits,
   decisions |-> decisions]

FunctionsInit ==
  /\ sessions = <<>>
  /\ registry = [c \in Calls |-> 0]
  /\ ctx = [c \in Calls |-> NoCtx]
  /\ missedLog = [c \in Calls |-> 0]
  /\ sessionLog = [c \in Calls |-> 0]
  /\ exchangeLog = [c \in Calls |-> 0]
  /\ finalized = [c \in Calls |-> FALSE]
  /\ nEvents = 0
  /\ last = {}
  /\ inflight \in {{Input("utterance", u, <<>>, <<>>, <<>>)} : u \in ClassifierInputs}
                  \cup {{Input("session", "", h, habits, decisions)} :
                          h \in SessionHistories, habits \in SessionHabits,
                          decisions \in SessionDecisions}

\* the classifiers and the two tests of handleGather on one utterance
classify ==
  \E q \in inflight :
    /\ q.kind = "utterance"
    /\ inflight' = {}
    /\ last' = {[kind |-> "utterance", text |-> q.text,
                 isVoicemailMessage |-> isVoicemailMessage(q.text),
                 isSessionEnding |-> isSessionEnding(q.text),
                 needsTools |-> needsTools(q.text),
                 isCommitment |-> isCommitment(q.text)]}
    /\ UNCHANGED <<sessions, registry, ctx, logs, finalized, nEvents>>

\* extractSessionInsights and getEndingMessage on one session, as handleSessionEnd
\* calls them at lines 246 and 258
summarize ==
  \E q \in inflight :
    /\ q.kind = "session"
    /\ inflight' = {}
    /\ LET prios == priorities(q.history, q.habits)
           tone == moodOf(combinedText(q.history))
       IN  \E line \in getEndingMessage(prios) :
             last' = {[kind |-> "session", history |-> q.history, habits |-> q.habits,
                       decisions |-> q.decisions,
                       priorities |-> prios, mood |-> tone.mood,
                       energyLevel |-> tone.energyLevel,
                       notes |-> notes(q.history, q.decisions, prios), line |-> line]}
    /\ UNCHANGED <<sessions, registry, ctx, logs, finalized, nEvents>>

FunctionsNext ==
  \/ classify
  \/ summarize

FunctionsSpec == FunctionsInit /\ [][FunctionsNext]_vars

(***************************************************************************)
(* Properties.  Each is read on the invocations in flight and on the one   *)
(* that finished in the last step, whose record carries what it did        *)
(* (trace, wrote) and what the gateway got back (outcome, response).       *)
(***************************************************************************)
Has(trace, mark) == \E k \in 1..Len(trace) : trace[k] = mark

Position(trace, mark) == CHOOSE k \in 1..Len(trace) : trace[k] = mark

Records(x, log) == {k \in 1..Len(x.wrote) : x.wrote[k].log = log}

Returned(handler, path) ==
  {x \in last : x.handler = handler /\ x.path = path /\ x.outcome = "sent"}

Spoken(response) == \E k \in 1..Len(response) : response[k].verb = "say"

Terminals(response) == {k \in 1..Len(response) : response[k].verb \in {"gather", "hangup"}}

\* the utterances both classifiers accept
BothAccept == {u \in UserInputs : isVoicemailMessageOf[u] /\ isSessionEndingOf[u]}

\* C1: an utterance that isVoicemailMessage and isSessionEnding both accept takes the
\* voicemail path of handleGather: its session is marked voicemail, the response it
\* returns is the voicemail line and a hangup, and the Session-End procedure (insight
\* extraction) never runs for that event.
C1_VoicemailBeforeEndIntent ==
  \A x \in inflight \cup last :
    (x.handler = "gather" /\ x.userInput \in BothAccept) =>
      /\ x.path = "voicemail"
      /\ Has(x.trace, "markAsVoicemail")
      /\ sessions[x.session].sessionType = "voicemail"
      /\ ~Has(x.trace, "extractSessionInsights")
      /\ ~Has(x.trace, "extractSessionInsights throws")
      /\ (x.pc = "done" /\ x.outcome = "sent") => x.response = voicemailResponse

C1_Witness ==
  \E x \in Returned("gather", "voicemail") :
    x.userInput = "you may hang up" /\ isSessionEnding(x.userInput)

\* what the voicemail path leaves behind when it returns, but for the missed-call record
VoicemailPathEffects(x) ==
  /\ Has(x.trace, "markAsVoicemail") /\ Has(x.trace, "endSession")
  /\ Position(x.trace, "markAsVoicemail") < Position(x.trace, "endSession")
  /\ sessions[x.session].sessionType = "voicemail"
  /\ registry[x.callSid] = 0
  /\ ~ctx[x.callSid].has
  /\ Len(x.response) = 2 /\ x.response[1].verb = "say" /\ x.response[2].verb = "hangup"
  /\ x.history = <<>> /\ x.reply = "" /\ x.llm = NoLlm
  /\ Records(x, "exchange") = {}
  /\ \A k \in 1..Len(x.trace) :
       x.trace[k] \in {"markAsVoicemail", "logMissedCall", "endSession", "ctx.clear"}

\* C2 (as the code has it): when handleGather returns from a voicemail-classified
\* utterance, the session was marked voicemail before it was finalized, the session is
\* finalized, the context store has no entry for the call, the response is one spoken
\* line and a hangup, no normal-turn effect happened, and exactly one missed-call record
\* was written if NOTION_LOGS_DB_ID is configured, none if it is not.
C2_VoicemailPath ==
  \A x \in Returned("gather", "voicemail") :
    /\ VoicemailPathEffects(x)
    /\ Cardinality(Records(x, "missed call")) = IF x.logsConfigured THEN 1 ELSE 0

C2_Witness ==
  \E x \in Returned("gather", "voicemail") :
    ~x.logsConfigured /\ Records(x, "missed call") = {} /\ ~ctx[x.callSid].has

\* C2 as the specification states it: exactly one missed-call record on every return of
\* the voicemail path.
C2_AlwaysOneMissedCallRecord ==
  \A x \in Returned("gather", "voicemail") :
    /\ VoicemailPathEffects(x)
    /\ Cardinality(Records(x, "missed call")) = 1

\* C3: once a call has been finalized, a later finalization of the same call writes no
\* further missed-call record.
C3_NoWriteAfterFinalization ==
  [][\A c \in Calls : finalized[c] => missedLog'[c] = missedLog[c]]_vars

\* C4: every utterance event handleGather handles while the call is in progress returns
\* a response with a spoken line and exactly one terminal directive, whichever
\* collaborator fails; no exception escapes the handler.
C4_AlwaysSpokenResponse ==
  \A x \in last :
    (x.handler = "gather" /\ x.CallStatus \notin TerminalStatuses) =>
      /\ x.outcome = "sent"
      /\ Spoken(x.response)
      /\ Cardinality(Terminals(x.response)) = 1

C6_ContextClearedAfterSessionEnd ==
  \A x \in Returned("gather", "sessionEnd") : ~ctx[x.callSid].has

\* C7: a handleGather event whose CallStatus is completed, no-answer or failed is
\* finalized without utterance classification: it takes neither the voicemail path, nor
\* the Session-End procedure, nor a normal turn.
C7_StatusBeforeClassification ==
  \A x \in inflight \cup last :
    (x.handler = "gather" /\ x.CallStatus \in TerminalStatuses) => x.path = "status"

\* C8: after a handler has processed an event with CallStatus completed, no-answer or
\* failed, the session of the call is finalized and the context store holds no entry
\* for the call.
C8_TerminalStatusFinalizesAndClears ==
  \A x \in last :
    (x.CallStatus \in TerminalStatuses /\ x.outcome = "sent") =>
      registry[x.callSid] = 0 /\ ~ctx[x.callSid].has

\* C9: every stored context list begins with one system entry and holds only user and
\* assistant entries after it.
C9_ContextBeginsWithSystem ==
  \A c \in Calls :
    ctx[c].has =>
      /\ Len(ctx[c].messages) > 0
      /\ ctx[c].messages[1].role = "system"
      /\ \A k \in 2..Len(ctx[c].messages) : ctx[c].messages[k].role \in {"user", "assistant"}

\* C10: once the sessionType of a session has left unknown, no step changes it.
C10_SessionTypeSetOnce ==
  [][\A o \in 1..Len(sessions) :
       (sessions[o].sessionType # "unknown" /\ sessions'[o].state # "collected")
         => sessions'[o].sessionType = sessions[o].sessionType]_vars

\* C11: an utterance handleGather receives for a call whose session has already reached
\* ended or voicemail writes no further missed-call or exchange log record.
C11_TerminalAbsorbing ==
  \A x \in inflight \cup last :
    (x.handler = "gather" /\ x.afterTerminal) =>
      Records(x, "missed call") = {} /\ Records(x, "exchange") = {}

\* C12: the sessionState a normal turn writes to the exchange log is conversation.
C12_NormalTurnIsConversation ==
  \A x \in Returned("gather", "normal") :
    \A k \in Records(x, "exchange") : x.wrote[k].detail = "conversation"

Classified == {x \in last : x.kind = "utterance"}

\* C13: isVoicemailMessage accepts every bare phone number of three, three and four
\* digits with optional separators (none, space, hyphen or period) between the groups.
C13_PhoneNumbersAreVoicemail ==
  \A x \in Classified : x.text \in PhoneShapes => x.isVoicemailMessage

\* C14: isVoicemailMessage accepts every input of length 3 to 10 that consists only of
\* digits and periods.
C14_DigitsAndPeriodsAreVoicemail ==
  \A x \in Classified :
    (/\ Len(x.text) \in 3..10
     /\ \A i \in 1..Len(x.text) : IsDigit(Ch(x.text, i)) \/ Ch(x.text, i) = ".")
      => x.isVoicemailMessage

\* C15: isSessionEnding accepts "that's it, thanks" and rejects "add a task to call mom".
C15_ThatsItThanksEnds ==
  \A x \in Classified :
    /\ x.text = "that's it, thanks" => x.isSessionEnding
    /\ x.text = "add a task to call mom" => ~x.isSessionEnding

Marks(x, mark) == {k \in 1..Len(x.trace) : x.trace[k] = mark}

\* C16: a normal turn records a decision only when the utterance matches the
\* commitment pattern; a tool request that does not match it records no decision even
\* when the dispatch succeeds, and records exactly one exchange with toolUsed set.
C16_DecisionOnlyOnCommitment ==
  \A x \in inflight \cup last :
    (x.handler = "gather" /\ x.path = "normal") =>
      /\ ~isCommitment(x.userInput) => Marks(x, "addDecision") = {}
      /\ (x.toolSuccess /\ x.pc \in {"log.insertOne", "done"}) =>
           Cardinality(Marks(x, "addExchange")) = 1 /\ x.toolUsed # ""

\* C17: when a normal turn dispatches a tool action its reply is composed from the
\* dispatch result, the success message when the dispatch succeeded and the apology
\* when it did not, and the turn returns a keep-listening directive.
C17_ReplyFromDispatchResult ==
  \A x \in inflight \cup last :
    (x.handler = "gather" /\ Has(x.trace, "executeToolCall")) =>
      /\ x.toolSuccess => StartsAt(x.reply, 1, "Got it. ")
      /\ ~x.toolSuccess => StartsAt(x.reply, 1, "Couldn't add that. ")
      /\ x.pc = "done" =>
           x.outcome = "sent" /\ Spoken(x.response) /\ x.response[Len(x.response)] = Gather

\* C18: when log.insertOne fails in a normal turn, or logMissedCall in the voicemail
\* path, the caller gets the reply and the directive of the successful write.
C18_LogFailureNotPropagated ==
  \A x \in last :
    /\ Has(x.trace, "log.insertOne throws") =>
         x.outcome = "sent" /\ x.response = <<Say(x.reply), Gather>>
    /\ (x.handler = "gather" /\ Has(x.trace, "logMissedCall throws")) =>
         x.outcome = "sent" /\ x.response = <<Say(VoicemailLine), Hangup>>

Summarized == {x \in last : x.kind = "session"}

\* the line is a non-empty beginning of the priority followed by the fixed ending
Restates(line, priority) ==
  \E n \in 1..Len(priority) : line = SubSeq(priority, 1, n) \o " locked in. Execute."

\* C19: the closing line restates the top priority whenever a priority was extracted,
\* and is one of the fixed generic lines exactly when none was.
C19_ClosingLineRestatesPriority ==
  \A x \in Summarized :
    /\ Len(x.priorities) > 0 => Restates(x.line, x.priorities[1])
    /\ Len(x.priorities) = 0 <=> x.line \in EndingMessages

\* the tone a text has when the first of the four keyword sets found in it wins
FirstSetWins(text) ==
  CASE \E w \in PositiveWords : Includes(text, w) -> <<"Positive", "High">>
    [] \E w \in LowWords : Includes(text, w) -> <<"Low", "Low">>
    [] \E w \in NeutralWords : Includes(text, w) -> <<"Neutral", "Medium">>
    [] \E w \in FocusWords : Includes(text, w) -> <<"Focused", "High">>
    [] OTHER -> <<"Neutral", "Medium">>

\* C20: extractSessionInsights classifies the lower-cased concatenation of the user
\* turns against the four keyword sets, the first matching set in the order positive,
\* struggle, neutral, focus winning and (Neutral, Medium) being the default; the result is
\* one of the four pairs, and the one user turn "I'm exhausted, this is too hard" gives
\* (Low, Low).
C20_MoodFirstMatchWins ==
  \A x \in Summarized :
    /\ <<x.mood, x.energyLevel>> = FirstSetWins(combinedText(x.history))
    /\ <<x.mood, x.energyLevel>> \in
         {<<"Positive", "High">>, <<"Low", "Low">>, <<"Neutral", "Medium">>,
          <<"Focused", "High">>}
    /\ userMessagesOf(x.history) = <<"I'm exhausted, this is too hard">>
         => x.mood = "Low" /\ x.energyLevel = "Low"

C20_Witness ==
  \E x \in Summarized :
    /\ userMessagesOf(x.history) = <<"I'm exhausted, this is too hard">>
    /\ x.mood = "Low" /\ x.energyLevel = "Low"

\* the entries of a list in first-seen order, each once
RECURSIVE FirstSeen(_)
FirstSeen(list) ==
  IF list = <<>> THEN <<>>
  ELSE <<Head(list)>> \o FirstSeen(SelectSeq(Tail(list), LAMBDA e : e # Head(list)))

\* the task mentions of the user-authored entries of a history, in the order of the turns
RECURSIVE UserMentions(_, _)
UserMentions(history, habits) ==
  IF history = <<>> THEN <<>>
  ELSE (IF Head(history).role = "user"
        THEN MessageMentionsOf[Head(history).content][habits] ELSE <<>>)
       \o UserMentions(Tail(history), habits)

\* what the agent's own text would contribute if it were read
ReplyMentions == {"45 minutes commitment made", "Start the plan for 45 minutes"}

\* C21: the priorities of extractSessionInsights are at most 3, hold no string twice, and
\* are the first (up to three) distinct task mentions, in first-seen order, of the
\* user-authored turns; system and assistant entries never contribute.
C21_PrioritiesFirstThreeDistinct ==
  \A x \in Summarized :
    LET distinct == FirstSeen(UserMentions(x.history, x.habits))
    IN  /\ Len(x.priorities) <= 3
        /\ \A i, j \in 1..Len(x.priorities) : i # j => x.priorities[i] # x.priorities[j]
        /\ Len(x.priorities) = IF Len(distinct) < 3 THEN Len(distinct) ELSE 3
        /\ \A k \in 1..Len(x.priorities) :
             x.priorities[k] = distinct[k] /\ x.priorities[k] \notin ReplyMentions

C21_Witness ==
  \E x \in Summarized :
    LET mentions == UserMentions(x.history, x.habits)
    IN  /\ Len(FirstSeen(mentions)) > 3
        /\ Len(FirstSeen(mentions)) < Len(mentions)
        /\ Len(x.priorities) = 3

\* the number of user-authored entries of a history
UserTurns(history) == Cardinality({k \in 1..Len(history) : history[k].role = "user"})

\* C22: the notes of extractSessionInsights are the default quick-check-in phrase exactly
\* when there is no decision, no extracted priority and fewer than 2 user turns;
\* otherwise they hold the decision count iff it is above 0, the top priority iff there
\* is one, Extended iff there are more than 3 user turns and Brief iff there are 2 or 3.
\* With no decision and no user turn the notes are the default phrase and the mood is
\* Neutral.
C22_NotesDigest ==
  \A x \in Summarized :
    LET n == UserTurns(x.history)
        d == Len(x.decisions)
        p == Len(x.priorities)
    IN  /\ (x.notes = "Quick check-in completed") <=> (d = 0 /\ p = 0 /\ n < 2)
        /\ x.notes # "Quick check-in completed" =>
             /\ Includes(x.notes, "Made " \o ToString(d) \o " commitments") <=> d > 0
             /\ Includes(x.notes, "Focus: ") <=> p > 0
             /\ p > 0 => Includes(x.notes, "Focus: " \o x.priorities[1])
             /\ Includes(x.notes, "Extended") <=> n > 3
             /\ Includes(x.notes, "Brief") <=> n \in {2, 3}
        /\ (d = 0 /\ n = 0) => x.notes = "Quick check-in completed" /\ x.mood = "Neutral"

C22_Witness ==
  \E x \in Summarized :
    /\ UserTurns(x.history) > 3 /\ Len(x.decisions) = 2 /\ Len(x.priorities) > 0
    /\ x.notes = "Made 2 commitments. Focus: start the report. Extended conversation"

\* the awaits of a normal turn before its reply is known
ReplyAwaits == {"llmReplyWithTools", "toolDispatch", "generateConversationalResponse", "llmReply"}

\* the normal turns of handleGather suspended on a reply while a terminal status has
\* finalized their call and cleared its context
OvertakenTurns ==
  {r \in inflight :
     /\ r.handler = "gather" /\ r.path = "normal" /\ r.pc \in ReplyAwaits
     /\ ~r.afterTerminal
     /\ finalized[r.callSid] /\ ~ctx[r.callSid].has
     /\ sessions[r.session].state \in TerminalStates}

\* C23: when a terminal status has finalized a call and cleared its context while a normal
\* turn of handleGather for that call is suspended on reply generation or tool dispatch,
\* the step in which the turn resumes leaves the context store without an entry for the
\* call and records no exchange and no decision on the finalized session.
C23_OvertakenTurnLeavesNothing ==
  [][\A r \in OvertakenTurns :
       (\E q \in inflight' \cup last' : q.id = r.id /\ q.trace # r.trace) =>
         /\ ~ctx'[r.callSid].has
         /\ sessions'[r.session].exchanges = sessions[r.session].exchanges
         /\ sessions'[r.session].decisions = sessions[r.session].decisions]_vars

\* how often an invocation did something
Count(trace, mark) == Cardinality({k \in 1..Len(trace) : trace[k] = mark})

\* C24: a normal turn without tools whose session carries a day analysis and whose
\* contextual reply generation fails goes on to plain reply generation in the same turn;
\* when that succeeds the plain reply is spoken, the context ends with the user entry and
\* then the assistant entry, one exchange is recorded and the response keeps listening.
\* The fixed fallback line is returned only when plain generation failed too, and the
\* response keeps listening then as well.
C24_ContextualFailureFallsBackToPlain ==
  \A x \in Returned("gather", "normal") :
    Has(x.trace, "generateConversationalResponse throws") =>
      /\ Has(x.trace, "llmReply") \/ Has(x.trace, "llmReply throws")
      /\ Len(x.response) = 2 /\ x.response[1].verb = "say" /\ x.response[2].verb = "gather"
      /\ Has(x.trace, "llmReply") =>
           /\ x.response[1].line = "<llm reply>"
           /\ Len(x.history) >= 2
           /\ x.history[Len(x.history) - 1] = Msg("user", x.userInput)
           /\ x.history[Len(x.history)] = Msg("assistant", "<llm reply>")
           /\ Count(x.trace, "ctx.set") = 1
           /\ Count(x.trace, "addExchange") = 1
      /\ x.response[1].line = "Let's stay focused. What's your main priority?" =>
           Has(x.trace, "llmReply throws")

\* the invocations that acted in a step: received, resumed or finished
Acting == (inflight' \cup last') \ (inflight \cup last)

\* C25: handling an event for one call, whatever the interleaving with the events of
\* another call, leaves the other call's session, context list, finalization status and
\* log counts as they were.
C25_CallsIndependent ==
  [][\A q \in Acting : \A b \in Calls \ {q.callSid} :
       /\ registry'[b] = registry[b]
       /\ registry[b] # 0 => sessions'[registry[b]] = sessions[registry[b]]
       /\ ctx'[b] = ctx[b]
       /\ finalized'[b] = finalized[b]
       /\ missedLog'[b] = missedLog[b]
       /\ sessionLog'[b] = sessionLog[b]
       /\ exchangeLog'[b] = exchangeLog[b]]_vars

C25_Witness ==
  \E x \in last : \E b \in Calls \ {x.callSid} :
    /\ x.handler \in {"status", "gather", "voice"}
    /\ Has(x.trace, "endSession") /\ Has(x.trace, "ctx.clear")
    /\ finalized[x.callSid] /\ ~ctx[x.callSid].has
    /\ registry[b] # 0 /\ ctx[b].has /\ ~finalized[b]
    /\ sessions[registry[b]].state \notin TerminalStates

=============================================================================
